---- MODULE Spec2Model ----
(***************************************************************************)
(* Job orchestration of the ConvoScope backend:                            *)
(*   backend/services/analyzer_service.py  (AnalysisJob, AnalyzerService)  *)
(*   backend/services/cache_service.py     (CacheService)                  *)
(* The request threads (create_job, cancel_job, stop) and the worker       *)
(* threads (_process_jobs, _run_analysis) interleave between any two       *)
(* accesses to the service's shared attributes: every assignment to a job  *)
(* attribute is a step of its own. A statement that touches nothing shared *)
(* (the external analyzer's calls, socketio.emit) is taken together with   *)
(* the one assignment next to it.                                          *)
(***************************************************************************)
EXTENDS Integers, Sequences, FiniteSets, TLC

\* ---------------------------------------------------------------- bounds
\* Jobs created and worker threads alive at once, at most.
MaxJobs == 2
MaxThreads == 2
\* The same for the life cycle of a job under one worker.
LifeJobs == 1
LifeThreads == 1
\* Concurrent callers of CacheService and the digests they use, at most; and
\* of a cache used from one thread.
MaxCallers == 2
MaxDigests == 2
LifeCallers == 1
\* The configured ceiling of the cache in bytes (Config.CACHE_MAX_SIZE, 1 GiB
\* as shipped): here the size of one cached document.
CACHE_MAX_SIZE == 8

JobIds == 1..MaxJobs
Threads == 1..MaxThreads
Callers == 1..MaxCallers

\* ------------------------------------------------------------- constants
\* Python's None for a string field, a result, a thread, a job.
NoneStr == "<None>"
NoResults == << "None" >>
NoThread == 0
NoJob == 0

\* The uploaded documents a job may be created for.
Files == {"a.json"}

\* The upload folder itself, and the file_id values a request may carry.
UploadFolder == "uploads/"
FileIds == {"a.json", "../a.json", "missing.json", ".."}

\* cancel_job's error text.
CancelMsg == "Cancelled by user"
\* str(e) of the exceptions the external analyzer (or socketio) may raise:
\* Exception() has an empty message.
ErrMsgs == {"", "analysis error"}
\* The same when every exception carries a message.
OneMsg == {"analysis error"}
\* No exception is being handled.
NoExc == [msg |-> NoneStr, at |-> "none"]

\* The progress calls with the second and the third exchanged.
StagesOutOfOrder ==
  << [progress |-> 5, message |-> "Loading data..."],
     [progress |-> 25, message |-> "Analyzing conversations..."],
     [progress |-> 15, message |-> "Data loaded successfully"],
     [progress |-> 70, message |-> "Analyzed messages"] >>

\* The four _emit_progress calls of _run_analysis, in program order.
Stages ==
  << [progress |-> 5, message |-> "Loading data..."],
     [progress |-> 15, message |-> "Data loaded successfully"],
     [progress |-> 25, message |-> "Analyzing conversations..."],
     [progress |-> 70, message |-> "Analyzed messages"] >>

\* parse_conversations_advanced(), the external analysis proper, precedes the
\* fourth.
AnalysisStage == 4

VARIABLES
  active_jobs,    \* AnalyzerService.active_jobs: job id -> AnalysisJob
  job_queue,      \* AnalyzerService.job_queue (FIFO of jobs, by id)
  running,        \* AnalyzerService.running
  worker_thread,  \* AnalyzerService.worker_thread (the last thread started)
  wpc,            \* per worker thread: position in _process_jobs/_run_analysis
  wjob,           \* per worker thread: the local `job`
  wstage,         \* per worker thread: which _emit_progress call it is in
  wexc,           \* per worker thread: the exception e being handled (str(e), and
                  \* the call that raised it)
  cpc,            \* per job id: position of the create_job call that made it
  kpc,            \* position of the cancel_job call in progress
  kjob,           \* the local `job` of that call
  events,         \* per room (job id): the events socketio.emit published
  cache,          \* CacheService's directory: digest -> the file <digest>.json
  calls,          \* per caller of CacheService: the call it is in, or made last
  last_set,       \* history: per digest, the value of the last set() that
                  \* returned with nothing else touching the file since
  dispatched,     \* history: per job id, calls of _run_analysis(job)
  analyze_calls,  \* history: per job id, calls of parse_conversations_advanced()
  cancel_ok,      \* history: per job id, the statuses a successful cancel_job found
  resubmitted,    \* history: jobs created when a complete job had the same content
  overdue         \* the clock: per job id, whether datetime.now() is past the
                  \* job's started_at by more than JOB_TIMEOUT

vars == << active_jobs, job_queue, running, worker_thread, wpc, wjob, wstage,
           wexc, cpc, kpc, kjob, events, cache, calls, last_set, dispatched,
           analyze_calls, cancel_ok, resubmitted, overdue >>

workerVars == << wpc, wjob, wstage, wexc >>
ghostVars == << dispatched, analyze_calls, cancel_ok, resubmitted, overdue >>
cancelVars == << kpc, kjob >>
cacheVars == << cache, calls, last_set >>
serviceVars == << active_jobs, job_queue, running, worker_thread, workerVars, cpc,
                  cancelVars, events, ghostVars >>

\* ------------------------------------------------------------ AnalysisJob
\* AnalysisJob.__init__. A timestamp is FALSE for None and TRUE once it holds
\* a datetime.now(): the clock only moves forward, so timestamps are ordered
\* as their assignments are.
NewJob(f) ==
  [ file_path |-> f,
    status |-> "pending",
    progress |-> 0,
    current_step |-> "",
    results |-> NoResults,
    error |-> NoneStr,
    started_at |-> FALSE,
    completed_at |-> FALSE ]

\* to_dict's 'error': str(self.error) if self.error else None.
ErrorView(e) == IF e = NoneStr \/ e = "" THEN NoneStr ELSE e

\* AnalysisJob.to_dict: what GET /api/analysis/<job_id> shows of a job.
to_dict(job) ==
  [ status |-> job.status,
    progress |-> job.progress,
    current_step |-> job.current_step,
    results |-> job.results,
    error |-> ErrorView(job.error),
    started_at |-> job.started_at,
    completed_at |-> job.completed_at ]

\* CacheService.calculate_file_hash: the SHA-256 of the document's bytes.
calculate_file_hash(f) == << "sha256", f >>

\* The results dict _run_analysis builds from the parsed document.
Summary(f) == << "summary", f >>

\* ----------------------------------------------------------- CacheService
\* The documents whose digests name the cache files.
Documents == << "a.json", "b.json", "c.json" >>
DigestsOf(n) == { calculate_file_hash(Documents[i]) : i \in 1..n }
NoDigest == << "sha256", "" >>

\* The Python values that go through the cache: None, and results dicts of
\* one item; a key is a str or an int, a value an int or a datetime.
PyNone == [t |-> "None", keyt |-> "", key |-> "", valt |-> "", val |-> ""]
PyDict(keyt, key, valt, val) ==
  [t |-> "dict", keyt |-> keyt, key |-> key, valt |-> valt, val |-> val]
\* An exception that leaves the call.
Raised == [t |-> "raised", keyt |-> "", key |-> "", valt |-> "", val |-> ""]
\* No set() to go by.
Nothing == [t |-> "nothing", keyt |-> "", key |-> "", valt |-> "", val |-> ""]
\* {"n": 3}, {1: 3} and {"n": datetime(...)}.
Values ==
  { PyDict("str", "n", "int", "3"),
    PyDict("int", "1", "int", "3"),
    PyDict("str", "n", "datetime", "3") }

\* What a cache file holds: a JSON object of one member, or text that is no
\* JSON document (an empty or half-written file); a file may also be there
\* and not be readable.
JsonObject(key, val) == [t |-> "json", key |-> key, val |-> val]
Truncated == [t |-> "truncated", key |-> "", val |-> ""]
Unreadable == [t |-> "unreadable", key |-> "", val |-> ""]

\* json.dump(results, f): a key that is an int is written as a string; a
\* datetime is not JSON serializable, the TypeError leaves what was written
\* before it in the file.
json_dump(v) ==
  IF v.valt = "datetime" THEN Truncated ELSE JsonObject(v.key, v.val)
\* json.dump raises on v.
DumpRaises(v) == v.valt = "datetime"

\* json.load(f) of a JSON object: the keys are str, the number an int.
json_load(text) == PyDict("str", text.key, "int", text.val)
\* open() or json.load() raises on the file.
LoadRaises(text) == text.t # "json"

\* f.stat().st_size of a cache file: json.dump writes the one-item object as
\* {"key": val}; of a file that holds no document, the least it can be.
st_size(text) ==
  IF text.t = "json" THEN 6 + Len(text.key) + Len(text.val) ELSE 0

\* A caller that is in no call, with the call it made last and what that
\* returned.
Call(op, pc, d, v, listing, ret) ==
  [op |-> op, pc |-> pc, digest |-> d, value |-> v, listing |-> listing,
   ret |-> ret]
IdleCall == Call("none", "idle", NoDigest, PyNone, {}, PyNone)
Returned(c, ret) ==
  calls' = [calls EXCEPT ![c] =
              Call(@.op, "idle", @.digest, PyNone, {}, ret)]
Remove(d) == [e \in DOMAIN cache \ {d} |-> cache[e]]
Forget(ds) == [d \in DOMAIN last_set |-> IF d \in ds THEN Nothing ELSE last_set[d]]

Created == DOMAIN active_jobs

SetField(j, field, v) ==
  active_jobs' = [active_jobs EXCEPT ![j] = [@ EXCEPT ![field] = v]]

\* ------------------------------------------------------------------ Init
Init ==
  /\ active_jobs = << >>
  /\ job_queue = << >>
  /\ running = FALSE
  /\ worker_thread = NoThread
  /\ wpc = [t \in Threads |-> "none"]
  /\ wjob = [t \in Threads |-> NoJob]
  /\ wstage = [t \in Threads |-> 0]
  /\ wexc = [t \in Threads |-> NoExc]
  /\ cpc = [j \in JobIds |-> "idle"]
  /\ kpc = "idle"
  /\ kjob = NoJob
  /\ events = [j \in JobIds |-> << >>]
  /\ cache = << >>
  /\ calls = [c \in Callers |-> IdleCall]
  /\ last_set = [d \in DigestsOf(MaxDigests) |-> Nothing]
  /\ dispatched = [j \in JobIds |-> 0]
  /\ analyze_calls = [j \in JobIds |-> 0]
  /\ cancel_ok = [j \in JobIds |-> {}]
  /\ resubmitted = {}
  /\ overdue = [j \in JobIds |-> FALSE]

\* ------------------------------------------------------- start() / stop()
\* start(), line 63: self.running = True.
StartSetRunning(c) ==
  /\ cpc[c] = "set_running"
  /\ running' = TRUE
  /\ cpc' = [cpc EXCEPT ![c] = "spawn"]
  /\ UNCHANGED << active_jobs, job_queue, worker_thread, workerVars, cancelVars,
                  events, cacheVars, ghostVars >>

\* start(), lines 64-65: a new thread begins _process_jobs, and start() and
\* the create_job that called it return. The thread takes the lowest of the
\* nt slots that is free.
StartSpawn(c, nt) ==
  /\ cpc[c] = "spawn"
  /\ \E t \in 1..nt :
       /\ wpc[t] = "none"
       /\ \A u \in 1..nt : wpc[u] = "none" => t <= u
       /\ worker_thread' = t
       /\ wpc' = [wpc EXCEPT ![t] = "loop"]
  /\ cpc' = [cpc EXCEPT ![c] = "idle"]
  /\ UNCHANGED << active_jobs, job_queue, running, wjob, wstage, wexc, cancelVars,
                  events, cacheVars, ghostVars >>

\* stop(): self.running = False, then worker_thread.join(timeout=5), which
\* returns when the thread has ended or after five seconds, whichever comes
\* first, and changes nothing.
Stop ==
  /\ running' = FALSE
  /\ UNCHANGED << active_jobs, job_queue, worker_thread, workerVars, cpc, cancelVars,
                  events, cacheVars, ghostVars >>

\* A create_job that puts the job on the queue before it is in active_jobs.
CreateJobEnqueueFirst(f, nj) ==
  LET j == Cardinality(Created) + 1 IN
  /\ j <= nj
  /\ cpc[j] = "idle"
  /\ job_queue' = Append(job_queue, j)
  /\ cpc' = [cpc EXCEPT ![j] = "put"]
  /\ UNCHANGED << active_jobs, running, worker_thread, workerVars, cancelVars,
                  events, cacheVars, ghostVars >>

\* ------------------------------------------------------------ create_job
\* Lines 77-79: a fresh uuid (the next of nj ids), AnalysisJob(...),
\* active_jobs[job_id] = job.
CreateJob(f, nj) ==
  LET j == Cardinality(Created) + 1 IN
  /\ j <= nj
  /\ active_jobs' = active_jobs @@ (j :> NewJob(f))
  /\ cpc' = [cpc EXCEPT ![j] = "put"]
  /\ resubmitted' =
       IF \E k \in Created : /\ active_jobs[k].status = "complete"
                             /\ active_jobs[k].file_path = f
         THEN resubmitted \cup {j}
         ELSE resubmitted
  /\ UNCHANGED << job_queue, running, worker_thread, workerVars, cancelVars, events,
                  cacheVars, dispatched, analyze_calls, cancel_ok, overdue >>

\* Line 80: self.job_queue.put(job).
CreatePut(j) ==
  /\ cpc[j] = "put"
  /\ job_queue' = Append(job_queue, j)
  /\ cpc' = [cpc EXCEPT ![j] = "check"]
  /\ UNCHANGED << active_jobs, running, worker_thread, workerVars, cancelVars,
                  events, cacheVars, ghostVars >>

\* Lines 84-85 and start()'s line 62: if not self.running: self.start(), whose
\* own test reads self.running again; a call that reads True at either test
\* returns job_id with nothing done, so the two reads are one step.
CreateCheck(j) ==
  /\ cpc[j] = "check"
  /\ cpc' = [cpc EXCEPT ![j] = IF ~running THEN "set_running" ELSE "idle"]
  /\ UNCHANGED << active_jobs, job_queue, running, worker_thread, workerVars,
                  cancelVars, events, cacheVars, ghostVars >>

\* ------------------------------------------------------------ cancel_job
\* Lines 95-96 (and 101): look the job up and test its status; an unknown id
\* or any other status returns False.
CancelCheck(j) ==
  /\ kpc = "idle"
  /\ IF j \in Created /\ active_jobs[j].status \in {"pending", "processing"}
       THEN /\ kpc' = "set_status"
            /\ kjob' = j
            /\ cancel_ok' = [cancel_ok EXCEPT ![j] = @ \cup {active_jobs[j].status}]
       ELSE UNCHANGED << kpc, kjob, cancel_ok >>
  /\ UNCHANGED << active_jobs, job_queue, running, worker_thread, workerVars,
                  cpc, events, cacheVars, dispatched, analyze_calls, resubmitted,
                  overdue >>

\* Line 97: job.status = 'failed'.
CancelSetStatus ==
  /\ kpc = "set_status"
  /\ SetField(kjob, "status", "failed")
  /\ kpc' = "set_error"
  /\ UNCHANGED << job_queue, running, worker_thread, workerVars, cpc, kjob,
                  events, cacheVars, ghostVars >>

\* Lines 98-100: job.error = 'Cancelled by user'; return True.
CancelSetError ==
  /\ kpc = "set_error"
  /\ SetField(kjob, "error", CancelMsg)
  /\ kpc' = "idle"
  /\ kjob' = NoJob
  /\ UNCHANGED << job_queue, running, worker_thread, workerVars, cpc, events,
                  cacheVars, ghostVars >>

\* --------------------------------------------------------- _process_jobs
Goto(t, pc) == wpc' = [wpc EXCEPT ![t] = pc]

\* Back at the head of the loop (or at the thread's end) the locals of the
\* iteration are dead: `job` is assigned again before it is read.
Return(t, pc) ==
  /\ wpc' = [wpc EXCEPT ![t] = pc]
  /\ wjob' = [wjob EXCEPT ![t] = NoJob]
  /\ wstage' = [wstage EXCEPT ![t] = 0]

\* The handler of _run_analysis's try: the exception that the call `at` raised
\* with message m is bound to e.
Raise(t, m, at) ==
  /\ wpc' = [wpc EXCEPT ![t] = "x_status"]
  /\ wexc' = [wexc EXCEPT ![t] = [msg |-> m, at |-> at]]

\* The external call before each stage.
CallBefore(s) ==
  CASE s = 2 -> "load_data"
    [] s = 4 -> "parse_conversations_advanced"
    [] OTHER -> "none"

\* socketio.emit(kind, {...}, room=job_id): the event joins the room's history.
Publish(j, kind, progress) ==
  events' = [events EXCEPT ![j] = Append(@, << kind, progress >>)]

\* Line 106: while self.running; line 114: the thread ends.
WorkerLoop(t) ==
  /\ wpc[t] = "loop"
  /\ Goto(t, IF running THEN "get" ELSE "none")
  /\ UNCHANGED << active_jobs, job_queue, running, worker_thread, wjob, wstage,
                  wexc, cpc, cancelVars, events, cacheVars, ghostVars >>

\* A get that reads the head of the queue and leaves it there.
WorkerGetPeek(t) ==
  /\ wpc[t] = "get"
  /\ IF job_queue # << >>
       THEN /\ wjob' = [wjob EXCEPT ![t] = Head(job_queue)]
            /\ Goto(t, "check")
       ELSE /\ Goto(t, "loop")
            /\ UNCHANGED wjob
  /\ UNCHANGED << active_jobs, job_queue, running, worker_thread, wstage, wexc, cpc,
                  cancelVars, events, cacheVars, ghostVars >>

\* Line 108: job = self.job_queue.get(timeout=1); on an empty queue the bare
\* except (lines 111-113) continues the loop.
WorkerGet(t) ==
  /\ wpc[t] = "get"
  /\ IF job_queue # << >>
       THEN /\ wjob' = [wjob EXCEPT ![t] = Head(job_queue)]
            /\ job_queue' = Tail(job_queue)
            /\ Goto(t, "check")
       ELSE /\ Goto(t, "loop")
            /\ UNCHANGED << wjob, job_queue >>
  /\ UNCHANGED << active_jobs, running, worker_thread, wstage, wexc, cpc, cancelVars,
                  events, cacheVars, ghostVars >>

\* Lines 109-110: if job.status != 'failed': self._run_analysis(job).
WorkerCheck(t) ==
  /\ wpc[t] = "check"
  /\ IF active_jobs[wjob[t]].status # "failed"
       THEN /\ Goto(t, "r_status")
            /\ dispatched' = [dispatched EXCEPT ![wjob[t]] = @ + 1]
            /\ UNCHANGED << wjob, wstage >>
       ELSE /\ Return(t, "loop")
            /\ UNCHANGED dispatched
  /\ UNCHANGED << active_jobs, job_queue, running, worker_thread, wexc, cpc,
                  cancelVars, events, cacheVars, analyze_calls, cancel_ok, resubmitted,
                  overdue >>

\* ---------------------------------------------------------- _run_analysis
\* Line 119: job.status = 'processing'.
RunSetProcessing(t) ==
  /\ wpc[t] = "r_status"
  /\ SetField(wjob[t], "status", "processing")
  /\ Goto(t, "r_started")
  /\ UNCHANGED << job_queue, running, worker_thread, wjob, wstage, wexc, cpc,
                  cancelVars, events, cacheVars, ghostVars >>

\* Line 120: job.started_at = datetime.now().
RunSetStarted(t) ==
  /\ wpc[t] = "r_started"
  /\ SetField(wjob[t], "started_at", TRUE)
  /\ Goto(t, "progress")
  /\ wstage' = [wstage EXCEPT ![t] = 1]
  /\ UNCHANGED << job_queue, running, worker_thread, wjob, wexc, cpc, cancelVars,
                  events, cacheVars, ghostVars >>

\* The external statement before a stage (lines 130-139, 146) and then
\* _emit_progress's line 182, job.progress = progress; or the external
\* statement raises one of msgs.
EmitProgressSet(t, msgs) ==
  /\ wpc[t] = "progress"
  /\ analyze_calls' =
       [analyze_calls EXCEPT ![wjob[t]] = IF wstage[t] = AnalysisStage THEN @ + 1 ELSE @]
  /\ \/ /\ SetField(wjob[t], "progress", Stages[wstage[t]].progress)
        /\ Goto(t, "step")
        /\ UNCHANGED wexc
     \/ /\ CallBefore(wstage[t]) # "none"
        /\ \E m \in msgs : Raise(t, m, CallBefore(wstage[t]))
        /\ UNCHANGED active_jobs
  /\ UNCHANGED << job_queue, running, worker_thread, wjob, wstage, cpc, cancelVars,
                  events, cacheVars, dispatched, cancel_ok, resubmitted, overdue >>

\* _emit_progress, line 183, job.current_step = message, and lines 185-190:
\* socketio.emit publishes the progress to the job's room (a failing
\* socketio.emit is followed at _emit_complete and _emit_error).
EmitProgressSend(t) ==
  /\ wpc[t] = "step"
  /\ SetField(wjob[t], "current_step", Stages[wstage[t]].message)
  /\ Publish(wjob[t], "progress", Stages[wstage[t]].progress)
  /\ IF wstage[t] < Len(Stages)
       THEN /\ Goto(t, "progress")
            /\ wstage' = [wstage EXCEPT ![t] = @ + 1]
       ELSE /\ Goto(t, "results")
            /\ UNCHANGED wstage
  /\ UNCHANGED << job_queue, running, worker_thread, wjob, wexc, cpc, cancelVars,
                  cacheVars, ghostVars >>

\* A _run_analysis that goes on to line 166 without storing the results.
RunSkipResults(t) ==
  /\ wpc[t] = "results"
  /\ Goto(t, "c_status")
  /\ UNCHANGED << active_jobs, job_queue, running, worker_thread, wjob, wstage,
                  wexc, cpc, cancelVars, events, cacheVars, ghostVars >>

\* Lines 151-164: job.results = {...}.
RunSetResults(t) ==
  /\ wpc[t] = "results"
  /\ SetField(wjob[t], "results", Summary(active_jobs[wjob[t]].file_path))
  /\ Goto(t, "c_status")
  /\ UNCHANGED << job_queue, running, worker_thread, wjob, wstage, wexc, cpc,
                  cancelVars, events, cacheVars, ghostVars >>

\* Line 166: job.status = 'complete'.
RunSetComplete(t) ==
  /\ wpc[t] = "c_status"
  /\ SetField(wjob[t], "status", "complete")
  /\ Goto(t, "c_completed")
  /\ UNCHANGED << job_queue, running, worker_thread, wjob, wstage, wexc, cpc,
                  cancelVars, events, cacheVars, ghostVars >>

\* Line 167: job.completed_at = datetime.now().
RunSetCompletedAt(t) ==
  /\ wpc[t] = "c_completed"
  /\ SetField(wjob[t], "completed_at", TRUE)
  /\ Goto(t, "c_progress")
  /\ UNCHANGED << job_queue, running, worker_thread, wjob, wstage, wexc, cpc,
                  cancelVars, events, cacheVars, ghostVars >>

\* An _emit_complete whose socketio.emit raises after the event has gone out.
EmitCompleteThenRaise(t, msgs) ==
  /\ wpc[t] = "c_progress"
  /\ SetField(wjob[t], "progress", 100)
  /\ Publish(wjob[t], "complete", 100)
  /\ \E m \in msgs : Raise(t, m, "emit")
  /\ UNCHANGED << job_queue, running, worker_thread, wjob, wstage, cpc, cancelVars,
                  cacheVars, ghostVars >>

\* Line 168, job.progress = 100, and line 171, _emit_complete: the 'complete'
\* event is published and _run_analysis returns to the loop, or socketio.emit
\* raises one of msgs.
EmitComplete(t, msgs) ==
  /\ wpc[t] = "c_progress"
  /\ SetField(wjob[t], "progress", 100)
  /\ \/ /\ Publish(wjob[t], "complete", 100)
        /\ Return(t, "loop")
        /\ UNCHANGED wexc
     \/ /\ \E m \in msgs : Raise(t, m, "emit")
        /\ UNCHANGED << events, wjob, wstage >>
  /\ UNCHANGED << job_queue, running, worker_thread, cpc, cancelVars, cacheVars,
                  ghostVars >>

\* Line 175 (except Exception as e): job.status = 'failed'.
ExceptSetFailed(t) ==
  /\ wpc[t] = "x_status"
  /\ SetField(wjob[t], "status", "failed")
  /\ Goto(t, "x_error")
  /\ UNCHANGED << job_queue, running, worker_thread, wjob, wstage, wexc, cpc,
                  cancelVars, events, cacheVars, ghostVars >>

\* Line 176: job.error = str(e).
ExceptSetError(t) ==
  /\ wpc[t] = "x_error"
  /\ SetField(wjob[t], "error", wexc[t].msg)
  /\ Goto(t, "x_completed")
  /\ UNCHANGED << job_queue, running, worker_thread, wjob, wstage, wexc, cpc,
                  cancelVars, events, cacheVars, ghostVars >>

\* An _emit_error whose exception ends the worker thread.
EmitErrorDies(t) ==
  /\ wpc[t] = "x_completed"
  /\ SetField(wjob[t], "completed_at", TRUE)
  /\ \/ /\ Publish(wjob[t], "error", active_jobs[wjob[t]].progress)
        /\ Return(t, "loop")
     \/ /\ UNCHANGED events
        /\ Return(t, "none")
  /\ wexc' = [wexc EXCEPT ![t] = NoExc]
  /\ UNCHANGED << job_queue, running, worker_thread, cpc, cancelVars, cacheVars,
                  ghostVars >>

\* Line 177, job.completed_at = datetime.now(), and line 178, _emit_error: the
\* 'error' event is published, or socketio.emit raises out of _run_analysis
\* into the bare except of _process_jobs; either way the loop continues.
EmitError(t) ==
  /\ wpc[t] = "x_completed"
  /\ SetField(wjob[t], "completed_at", TRUE)
  /\ \/ Publish(wjob[t], "error", active_jobs[wjob[t]].progress)
     \/ UNCHANGED events
  /\ Return(t, "loop")
  /\ wexc' = [wexc EXCEPT ![t] = NoExc]
  /\ UNCHANGED << job_queue, running, worker_thread, cpc, cancelVars, cacheVars,
                  ghostVars >>

\* ------------------------------------------------------------- the clock
\* Time passes while a job runs (the external calls take as long as they
\* take): datetime.now() gets past the job's started_at, line 120, by more
\* than Config.JOB_TIMEOUT. Nothing of the service changes.
Elapse(j) ==
  /\ j \in Created
  /\ active_jobs[j].started_at
  /\ ~overdue[j]
  /\ overdue' = [overdue EXCEPT ![j] = TRUE]
  /\ UNCHANGED << active_jobs, job_queue, running, worker_thread, workerVars, cpc,
                  cancelVars, events, cacheVars, dispatched, analyze_calls,
                  cancel_ok, resubmitted >>

\* ------------------------------------------------------ CacheService calls
\* get(), lines 20-21 and 29-30: cache_file.exists(); a miss returns None.
GetExists(c, d) ==
  /\ calls[c].pc = "idle"
  /\ calls' = [calls EXCEPT ![c] =
                 IF d \in DOMAIN cache
                   THEN Call("get", "get_load", d, PyNone, {}, PyNone)
                   ELSE Call("get", "idle", d, PyNone, {}, PyNone)]
  /\ UNCHANGED << cache, last_set, serviceVars >>

\* A get() that opens and loads the file outside any try.
GetLoadNoTry(c) ==
  LET d == calls[c].digest IN
  /\ calls[c].pc = "get_load"
  /\ Returned(c, IF d \notin DOMAIN cache \/ LoadRaises(cache[d])
                   THEN Raised
                   ELSE json_load(cache[d]))
  /\ UNCHANGED << cache, last_set, serviceVars >>

\* get(), lines 22-28: open and json.load inside the try; a file that is gone
\* by now, cannot be read or holds no JSON document raises, and the handler
\* returns None.
GetLoad(c) ==
  LET d == calls[c].digest IN
  /\ calls[c].pc = "get_load"
  /\ Returned(c, IF d \notin DOMAIN cache \/ LoadRaises(cache[d])
                   THEN PyNone
                   ELSE json_load(cache[d]))
  /\ UNCHANGED << cache, last_set, serviceVars >>

\* set(), lines 34-36 and 39-40: open(cache_file, 'w') creates the file or
\* empties it; when open raises the handler logs and set returns.
SetOpen(c, d, v) ==
  /\ calls[c].pc = "idle"
  /\ \/ /\ cache' = (d :> Truncated) @@ cache
        /\ last_set' = Forget({d})
        /\ calls' = [calls EXCEPT ![c] = Call("set", "set_dump", d, v, {}, PyNone)]
     \/ /\ calls' = [calls EXCEPT ![c] = Call("set", "idle", d, PyNone, {}, PyNone)]
        /\ UNCHANGED << cache, last_set >>
  /\ UNCHANGED serviceVars

\* set(), lines 37-40: json.dump writes the document, or raises part way and
\* the handler logs; either way set returns None. A file deleted since the
\* open stays deleted.
SetDump(c) ==
  LET d == calls[c].digest
      v == calls[c].value IN
  /\ calls[c].pc = "set_dump"
  /\ IF d \in DOMAIN cache
       THEN /\ cache' = [cache EXCEPT ![d] = json_dump(v)]
            /\ last_set' = [last_set EXCEPT ![d] = v]
       ELSE UNCHANGED << cache, last_set >>
  /\ Returned(c, PyNone)
  /\ UNCHANGED serviceVars

\* delete(), lines 44-45: cache_file.exists(); nothing to do on a miss.
DeleteExists(c, d) ==
  /\ calls[c].pc = "idle"
  /\ calls' = [calls EXCEPT ![c] =
                 IF d \in DOMAIN cache
                   THEN Call("delete", "delete_unlink", d, PyNone, {}, PyNone)
                   ELSE Call("delete", "idle", d, PyNone, {}, PyNone)]
  /\ UNCHANGED << cache, last_set, serviceVars >>

\* delete(), lines 46-47: cache_file.unlink(), which raises FileNotFoundError
\* out of delete when the file is gone.
DeleteUnlink(c) ==
  LET d == calls[c].digest IN
  /\ calls[c].pc = "delete_unlink"
  /\ IF d \in DOMAIN cache
       THEN /\ cache' = Remove(d)
            /\ last_set' = Forget({d})
            /\ Returned(c, PyNone)
       ELSE /\ Returned(c, Raised)
            /\ UNCHANGED << cache, last_set >>
  /\ UNCHANGED serviceVars

\* clear_all(), line 51: glob("*.json") lists the files that are there.
ClearGlob(c) ==
  /\ calls[c].pc = "idle"
  /\ calls' = [calls EXCEPT ![c] =
                 IF cache = << >>
                   THEN Call("clear_all", "idle", NoDigest, PyNone, {}, PyNone)
                   ELSE Call("clear_all", "clear_unlink", NoDigest, PyNone,
                             DOMAIN cache, PyNone)]
  /\ UNCHANGED << cache, last_set, serviceVars >>

\* clear_all(), lines 51-53: cache_file.unlink() for the next file listed, in
\* the order of the directory; FileNotFoundError leaves clear_all when the
\* file is gone.
ClearUnlink(c) ==
  /\ calls[c].pc = "clear_unlink"
  /\ \E d \in calls[c].listing :
       IF d \in DOMAIN cache
         THEN /\ cache' = Remove(d)
              /\ last_set' = Forget({d})
              /\ IF calls[c].listing = {d}
                   THEN Returned(c, PyNone)
                   ELSE calls' = [calls EXCEPT ![c].listing = @ \ {d}]
         ELSE /\ Returned(c, Raised)
              /\ UNCHANGED << cache, last_set >>
  /\ UNCHANGED serviceVars

\* The file system under the cache: a file stops being readable.
Damage(d) ==
  /\ d \in DOMAIN cache
  /\ cache[d] # Unreadable
  /\ cache' = [cache EXCEPT ![d] = Unreadable]
  /\ last_set' = Forget({d})
  /\ UNCHANGED << calls, serviceVars >>

\* get_size(), line 57: the sum of st_size over the files of the directory.
RECURSIVE SumSizes(_)
SumSizes(ds) ==
  IF ds = {} THEN 0
  ELSE LET d == CHOOSE e \in ds : TRUE IN st_size(cache[d]) + SumSizes(ds \ {d})
get_size == SumSizes(DOMAIN cache)

\* The calls of nc callers on nd digests.
NextCache(nc, nd) ==
  \E c \in 1..nc :
    \/ \E d \in DigestsOf(nd) :
         \/ GetExists(c, d)
         \/ \E v \in Values : SetOpen(c, d, v)
         \/ DeleteExists(c, d)
         \/ Damage(d)
    \/ GetLoad(c) \/ SetDump(c) \/ DeleteUnlink(c)
    \/ ClearGlob(c) \/ ClearUnlink(c)

\* ------------------------------------------------------------ the routes
\* werkzeug's secure_filename on the ids of FileIds: path separators become
\* "_" and leading and trailing dots and underscores are stripped, so of
\* "../a.json" the name "a.json" is left and of ".." the empty name.
secure_filename(id) ==
  CASE id = "../a.json" -> "a.json"
    [] id = ".." -> ""
    [] OTHER -> id

\* routes/analysis.py line 22: UPLOAD_FOLDER / file_id; joining the empty name
\* gives the folder itself.
UploadPath(name) == IF name = "" THEN UploadFolder ELSE name

\* Line 24: file_path.exists(), true of the uploaded documents and of the
\* folder.
Exists(path) == path \in Files \cup {UploadFolder}

\* POST /api/analysis, lines 16-43: 404 when the path does not exist, else
\* create_job(file_path, options), whose first statements are CreateJob.
start_analysis(id, nj) ==
  LET file_path == UploadPath(secure_filename(id)) IN
  IF Exists(file_path) THEN CreateJob(file_path, nj) ELSE UNCHANGED vars

\* GET /api/analysis/<job_id>, lines 54-59: 404 for an unknown id, else the
\* job's to_dict(); nothing is written.
get_analysis(id) == UNCHANGED vars

\* DELETE /api/analysis/<job_id>, lines 70-75: cancel_job(job_id), 404 when it
\* returns False; its first statements are CancelCheck.
cancel_analysis(id) == CancelCheck(id)

\* ------------------------------------------------------------------ Next
\* The statements of a create_job call after the job is in active_jobs.
CreateSteps(nt) ==
  \E j \in JobIds :
    CreatePut(j) \/ CreateCheck(j) \/ StartSetRunning(j) \/ StartSpawn(j, nt)

\* create_job calls (each may call start()), for nj jobs and nt threads.
Create(nj, nt) ==
  \/ \E f \in Files : CreateJob(f, nj)
  \/ CreateSteps(nt)

\* cancel_job calls, on any id.
Cancel ==
  \/ \E j \in JobIds : CancelCheck(j)
  \/ CancelSetStatus \/ CancelSetError

\* A worker thread's steps; the external calls raise one of msgs.
Worker(t, msgs) ==
  \/ WorkerLoop(t) \/ WorkerGet(t) \/ WorkerCheck(t)
  \/ RunSetProcessing(t) \/ RunSetStarted(t)
  \/ EmitProgressSet(t, msgs) \/ EmitProgressSend(t)
  \/ RunSetResults(t)
  \/ RunSetComplete(t) \/ RunSetCompletedAt(t) \/ EmitComplete(t, msgs)
  \/ ExceptSetFailed(t) \/ ExceptSetError(t) \/ EmitError(t)

\* Any step of the service with nj jobs and nt worker threads: create_job
\* calls (each may start a worker), stop(), cancel_job, and the workers, whose
\* external calls may raise one of msgs.
Next(nj, nt, msgs) ==
  \/ Create(nj, nt)
  \/ Stop
  \/ Cancel
  \/ \E t \in Threads : Worker(t, msgs)

\* The service that is never stopped.
NextRunning(nj, nt, msgs) ==
  \/ Create(nj, nt)
  \/ Cancel
  \/ \E t \in Threads : Worker(t, msgs)

\* The service behind its routes.
NextApi(nj, nt, msgs) ==
  \/ \E id \in FileIds : start_analysis(id, nj)
  \/ \E id \in JobIds : get_analysis(id)
  \/ \E id \in JobIds : cancel_analysis(id)
  \/ CreateSteps(nt)
  \/ CancelSetStatus \/ CancelSetError
  \/ \E t \in Threads : Worker(t, msgs)

\* The service and the clock.
NextTimed(nj, nt, msgs) ==
  \/ Next(nj, nt, msgs)
  \/ \E j \in JobIds : Elapse(j)

\* The service under a client that submits its jobs in turn: create_job is
\* called when every earlier create_job call has returned its id.
SubmitInTurn(nj) ==
  /\ \A k \in Created : cpc[k] = "idle"
  /\ \E f \in Files : CreateJob(f, nj)
NextInTurn(nj, nt, msgs) ==
  \/ SubmitInTurn(nj)
  \/ CreateSteps(nt)
  \/ Stop
  \/ Cancel
  \/ \E t \in Threads : Worker(t, msgs)

\* A create_job call that has begun returns, and a worker thread that can
\* take a step does: every external call returns or raises.
Fairness(nj, nt, msgs) ==
  /\ \A j \in 1..nj :
       WF_vars(CreatePut(j) \/ CreateCheck(j) \/ StartSetRunning(j)
                 \/ StartSpawn(j, nt))
  /\ \A t \in 1..nt : WF_vars(Worker(t, msgs))

\* ------------------------------------------------------------ properties
\* The job states of the specification, as AnalysisJob.status holds them:
\* Cancelled has no status of its own, cancel_job stores 'failed'.
Terminal == {"complete", "failed"}
StatusEdges ==
  { << "pending", "processing" >>, << "pending", "failed" >>,
    << "processing", "complete" >>, << "processing", "failed" >> }

\* Thread t is inside _run_analysis(job).
InRun(t) == wpc[t] \notin {"none", "loop", "get", "check"}
Range(q) == { q[i] : i \in DOMAIN q }
\* What get_job and the status endpoint show of job j.
View(j) == to_dict(active_jobs[j])
\* The progress of the last event published to j's room (0 before the first).
LastPublished(j) ==
  IF events[j] = << >> THEN 0 ELSE events[j][Len(events[j])][2]

\* C1: a job starts Pending and its status moves only along Pending ->
\* Processing, Pending -> Cancelled, Processing -> Complete, Processing ->
\* Failed, Processing -> Cancelled; a terminal status never changes again.
C1_OnlySpecifiedEdges ==
  [][\A j \in Created :
       /\ active_jobs'[j].status # active_jobs[j].status
            => << active_jobs[j].status, active_jobs'[j].status >> \in StatusEdges
       /\ active_jobs[j].status \in Terminal
            => active_jobs'[j].status = active_jobs[j].status]_vars

\* C2: once cancel_job has returned True for a job it found Pending, the job is
\* cancelled and the worker never dispatches it: it is not Processing, has no
\* started_at, and no event was published for it.
C2_CancelledPendingNeverRuns ==
  \A j \in Created :
    (cancel_ok[j] = {"pending"} /\ kjob # j)
      => /\ active_jobs[j].status = "failed"
         /\ ~active_jobs[j].started_at
         /\ events[j] = << >>
         /\ \A t \in Threads : ~(wjob[t] = j /\ InRun(t))

\* C3: cancel_job changes a job only while its status is Pending or
\* Processing, also when the worker moves the job to a terminal status while
\* the call is under way.
C3_CancelWritesOnlyLiveJobs ==
  [][(kpc = "set_status" /\ kpc' = "set_error")
       => active_jobs[kjob].status \in {"pending", "processing"}]_vars

PoolSize == 1
C5_PoolBound ==
  /\ Cardinality({ t \in Threads : InRun(t) }) <= PoolSize
  /\ \A j, k \in Created :
       (j # k /\ active_jobs[j].started_at /\ active_jobs[k].started_at)
         => (active_jobs[j].completed_at \/ active_jobs[k].completed_at)

\* C6: a job's progress stays within 0..100 and, until the job is terminal,
\* never decreases.
C6_ProgressMonotone ==
  /\ [](\A j \in Created : View(j).progress \in 0..100)
  /\ [][\A j \in Created :
          active_jobs[j].status \notin Terminal
            => active_jobs'[j].progress >= active_jobs[j].progress]_vars
\* A processing job whose progress has gone through every stage.
C6_Witness ==
  \E j \in Created :
    /\ active_jobs[j].status = "processing"
    /\ active_jobs[j].progress = 70
    /\ Len(events[j]) = Len(Stages)

\* C7: a job shows progress 100 exactly when it is Complete.
C7_HundredIffComplete ==
  \A j \in Created : (View(j).progress = 100) <=> (View(j).status = "complete")

\* C8: a job has a result only when Complete, an error only when Failed, and
\* never both.
C8_ResultXorError ==
  \A j \in Created :
    /\ View(j).results # NoResults => View(j).status = "complete"
    /\ View(j).error # NoneStr => View(j).status = "failed"
    /\ ~(View(j).results # NoResults /\ View(j).error # NoneStr)

\* C9: when loading or analysing raised after progress p was published, the
\* job is left Failed at progress p with the error's non-empty message and no
\* result, and the analysis has not been called again.
C9_FailureRecorded ==
  [][\A t \in Threads :
       ( /\ wpc[t] = "x_completed"
         /\ wpc'[t] = "loop"
         /\ wexc[t].at \in {"load_data", "parse_conversations_advanced"}
         /\ cancel_ok[wjob[t]] = {} )
         => LET v == to_dict(active_jobs'[wjob[t]]) IN
              /\ v.status = "failed"
              /\ v.progress = LastPublished(wjob[t])
              /\ v.error # NoneStr
              /\ v.error # ""
              /\ v.error = wexc[t].msg
              /\ v.results = NoResults
              /\ dispatched[wjob[t]] = 1
              /\ analyze_calls[wjob[t]] <= 1]_vars

\* C10: once a job is Complete and its run has returned, the cache holds an
\* entry for its content, and a job created for the same content afterwards is
\* answered from it: the analysis is not called for that job.
C10_CompleteIsCached ==
  /\ \A j \in Created :
       (active_jobs[j].status = "complete" /\ \A t \in Threads : wjob[t] # j)
         => calculate_file_hash(active_jobs[j].file_path) \in DOMAIN cache
  /\ \A j \in resubmitted : analyze_calls[j] = 0

\* C12: when cancel_job has returned True for a job it found Processing and
\* the runner reaches the checkpoint before the analysis call, the runner
\* stops: it does not call the analysis, changes no field of the job and
\* publishes nothing more for it.
C12_RunnerStopsAtCheckpoint ==
  [][\A t \in Threads :
       ( /\ wpc[t] = "progress"
         /\ wstage[t] = AnalysisStage
         /\ "processing" \in cancel_ok[wjob[t]]
         /\ kjob # wjob[t] )
         => /\ active_jobs'[wjob[t]] = active_jobs[wjob[t]]
            /\ events'[wjob[t]] = events[wjob[t]]
            /\ analyze_calls'[wjob[t]] = analyze_calls[wjob[t]]]_vars

\* C13: in each job's room the progress events carry non-decreasing values,
\* at most one complete or error event is published, and it is the last event.
IsTerminalEvent(e) == e[1] \in {"complete", "error"}
C13_EventOrder ==
  \A j \in JobIds :
    LET ev == events[j] IN
    /\ \A a, b \in DOMAIN ev :
         (a < b /\ ev[a][1] = "progress" /\ ev[b][1] = "progress")
           => ev[a][2] <= ev[b][2]
    /\ Cardinality({ a \in DOMAIN ev : IsTerminalEvent(ev[a]) }) <= 1
    /\ \A a \in DOMAIN ev : IsTerminalEvent(ev[a]) => a = Len(ev)
\* A job whose _emit_complete raised: its room has the four progress events
\* and then the error event.
C13_Witness ==
  \E j \in Created :
    /\ Len(events[j]) = Len(Stages) + 1
    /\ events[j][Len(events[j])] = << "error", 100 >>
    /\ active_jobs[j].status = "failed"
    /\ \A t \in Threads : wjob[t] # j

\* C15: while the service is stopped no worker dispatches a job: the jobs
\* still in the queue are left for the next start.
C15_NoDispatchAfterStop ==
  [][(~running /\ ~running')
       => \A j \in JobIds : dispatched'[j] = dispatched[j]]_vars

\* C19: what get_job shows of a job is never torn: progress and current_step
\* belong to the same _emit_progress call, a processing job has its
\* started_at, a complete job its completed_at and progress 100, a job the
\* runner has failed its error.
C19_NoTornRead ==
  \A j \in Created :
    LET v == View(j) IN
    /\ \A i \in DOMAIN Stages :
         v.progress = Stages[i].progress => v.current_step = Stages[i].message
    /\ v.status = "processing" => v.started_at
    /\ v.status = "complete" => (v.completed_at /\ v.progress = 100)
    /\ (v.status = "failed" /\ cancel_ok[j] = {}) => v.error # NoneStr

\* C20: a job id that create_job, the queue, a worker or cancel_job holds is
\* in active_jobs; a job enters active_jobs as a fully formed pending job,
\* before it is on the queue, and never leaves.
C20_RegisteredBeforeQueued ==
  /\ [](/\ Range(job_queue) \subseteq Created
        /\ \A t \in Threads : wjob[t] # NoJob => wjob[t] \in Created
        /\ \A j \in JobIds : cpc[j] # "idle" => j \in Created
        /\ kjob # NoJob => kjob \in Created)
  /\ [][/\ Created \subseteq DOMAIN active_jobs'
        /\ \A j \in DOMAIN active_jobs' \ Created :
             /\ \E f \in Files : active_jobs'[j] = NewJob(f)
             /\ j \notin Range(job_queue)
             /\ j \notin Range(job_queue')]_vars
\* A job is on the queue, pending in active_jobs, and its create_job has not
\* returned the id yet.
C20_Witness ==
  \E j \in Created :
    /\ j \in Range(job_queue)
    /\ cpc[j] = "check"
    /\ active_jobs[j] = NewJob("a.json")

\* C14: an exception while a job runs ends that job only. The handling thread
\* touches no other job, no other room, neither the queue nor the running
\* flag, and goes back to its loop; and in a service that is not stopped every
\* queued job that is not cancelled is dispatched and comes to a terminal
\* status with its run over: again and again no job is left unsettled.
InHandler(t) == wpc[t] \in {"x_status", "x_error", "x_completed"}
\* Job j is not waiting for anything: it is not on the queue yet, or
\* cancel_job has returned True for it, or it was dispatched and its run has
\* ended in a terminal status.
Settled(j) ==
  \/ cpc[j] = "put"
  \/ cancel_ok[j] # {}
  \/ /\ dispatched[j] = 1
     /\ active_jobs[j].status \in Terminal
     /\ \A t \in Threads : wjob[t] # j
C16_NotFoundCreatesNoJob ==
  /\ \A j \in Created : active_jobs[j].file_path \in Files
  /\ Range(job_queue) \subseteq Created

\* C11: a get(d) that follows a set(d, v), with no set, delete or clear_all
\* on d in between, returns a value equal to v (the v of the latest such
\* set), and a get or set on d leaves the entries of the other digests alone.
C11_RoundTrip ==
  [][\A c \in Callers :
       /\ ( /\ calls[c].pc = "get_load"
            /\ calls'[c].pc = "idle"
            /\ last_set[calls[c].digest] # Nothing )
            => calls'[c].ret = last_set[calls[c].digest]
       /\ (calls'[c] # calls[c] /\ calls'[c].op \in {"get", "set"})
            => \A e \in DOMAIN cache \ {calls'[c].digest} :
                 e \in DOMAIN cache' /\ cache'[e] = cache[e]]_vars

\* C17: get and set never raise to their caller: a get of an entry that is
\* missing, that cannot be read or that holds no JSON document returns None,
\* and a set returns None whether or not it could write.
BadEntry(d) == d \notin DOMAIN cache \/ cache[d] \in {Truncated, Unreadable}
C17_CacheNeverRaises ==
  /\ [](\A c \in Callers :
          calls[c].op \in {"get", "set"} => calls[c].ret # Raised)
  /\ [][\A c \in Callers :
          /\ ( /\ calls'[c].op = "get"
               /\ calls'[c] # calls[c]
               /\ calls'[c].pc = "idle"
               /\ BadEntry(calls'[c].digest) )
               => calls'[c].ret = PyNone
          /\ (calls'[c].op = "set" /\ calls'[c].pc = "idle")
               => calls'[c].ret = PyNone]_vars
\* A get that returned None from a half-written file and one that returned
\* None from a file it could not read.
C17_Witness ==
  \E c \in Callers, d, e \in DOMAIN cache :
    /\ calls[c] = Call("get", "idle", d, PyNone, {}, PyNone)
    /\ cache[d] = Unreadable
    /\ cache[e] = Truncated

\* C18: delete and clear_all never fail, on an absent digest, on an empty
\* cache, or when two of them run at once on the same entry.
C18_DeleteNeverFails ==
  \A c \in Callers :
    calls[c].op \in {"delete", "clear_all"} => calls[c].ret # Raised

\* C21: jobs are dispatched in the order of their submission: when create_job
\* had returned for job a before it was called for job b (the ids are given
\* out in that order) and cancel_job has succeeded on neither, _run_analysis
\* is not called for b before it has been called for a.
C21_FifoDispatch ==
  \A a, b \in Created :
    (a < b /\ cancel_ok[a] = {} /\ cancel_ok[b] = {} /\ dispatched[b] >= 1)
      => dispatched[a] >= 1

\* C22: when no set is under way the total size of the cache files is at most
\* the configured ceiling: a set that pushes the total over it removes
\* entries until the total is under it again.
C22_SizeUnderCeiling ==
  (\A c \in Callers : calls[c].pc # "set_dump") => get_size <= CACHE_MAX_SIZE

\* C23: a job whose maximum duration has elapsed while it runs never becomes
\* Complete, and the runner that reaches its next checkpoint (the next
\* _emit_progress call) with such a job still Processing leaves the job's
\* progress alone and fails it with a timeout error.
C23_TimeoutEnforced ==
  [][\A t \in Threads :
       (InRun(t) /\ overdue[wjob[t]])
         => LET j == wjob[t] IN
            /\ active_jobs[j].status # "complete"
                 => active_jobs'[j].status # "complete"
            /\ ( /\ wpc[t] = "progress"
                 /\ wpc'[t] # "progress"
                 /\ active_jobs[j].status = "processing" )
                 => /\ InHandler(t)'
                    /\ wexc'[t].at = "timeout"
                    /\ active_jobs'[j].progress = active_jobs[j].progress]_vars

\* C24: whatever cancel_job does in between, a job that get_job shows as
\* complete has its results and its started_at: the export route, which
\* tests status == 'complete' only, never finds a complete job without them.
C24_CompleteHasResults ==
  \A j \in Created :
    View(j).status = "complete"
      => (View(j).results # NoResults /\ View(j).started_at)
\* A job that cancel_job marked failed while it was processing and that the
\* runner has set complete since.
C24_Witness ==
  \E j \in Created :
    /\ View(j).status = "complete"
    /\ "processing" \in cancel_ok[j]
    /\ kjob # j
    /\ View(j).results = Summary("a.json")
    /\ View(j).started_at

\* The life of a job under one worker.
Spec == Init /\ [][Next(LifeJobs, LifeThreads, OneMsg)]_vars

\* The same, with exceptions that carry no message among the failures.
SpecErr == Init /\ [][Next(LifeJobs, LifeThreads, ErrMsgs)]_vars

\* The service that is never stopped, its calls and threads scheduled fairly.
SpecLive ==
  /\ Init
  /\ [][NextRunning(LifeJobs, LifeThreads, OneMsg)]_vars
  /\ Fairness(LifeJobs, LifeThreads, OneMsg)

\* The life of a job while the clock runs.
SpecTimed == Init /\ [][NextTimed(LifeJobs, LifeThreads, OneMsg)]_vars

\* The service as the routes of routes/analysis.py drive it.
SpecApi == Init /\ [][NextApi(LifeJobs, LifeThreads, OneMsg)]_vars

\* CacheService used from one thread, and from concurrent ones.
SpecCache == Init /\ [][NextCache(LifeCallers, MaxDigests)]_vars
SpecCachePool == Init /\ [][NextCache(MaxCallers, MaxDigests)]_vars

\* The worker pool under jobs submitted one after the other.
SpecInTurn == Init /\ [][NextInTurn(MaxJobs, MaxThreads, OneMsg)]_vars

\* The worker pool: concurrent create_job calls and the threads they start.
SpecPool == Init /\ [][Next(MaxJobs, MaxThreads, OneMsg)]_vars

====
